---- MODULE Spec2Model ----
(***************************************************************************)
(* Model of the order-creation transaction of src/index.js                 *)
(* (app.post('/api/orders'), lines 165-256) together with the relational   *)
(* store it talks to, the catalog writers (PUT/DELETE /api/products/:id)   *)
(* and the order reader (GET /api/orders).                                 *)
(*                                                                         *)
(* JavaScript runs a handler without interruption between two awaits, so   *)
(* every action below is the completion of one awaited store call followed *)
(* by the synchronous code up to the next await (which it issues).         *)
(* Strings are sequences of one-character strings, so that trim() is       *)
(* computed; a missing (undefined / falsy) number is 0 and a missing       *)
(* string is the empty sequence.  Prices are integers (the smallest        *)
(* currency unit).                                                         *)
(***************************************************************************)
EXTENDS Integers, Sequences, FiniteSets, TLC

\* ---------------------------------------------------------------- bounds
NumReq == 2            \* concurrent create-order requests
MaxItems == 2          \* line items per request
NumProducts == 1       \* products 1..NumProducts exist at start; NumProducts+1 never does
MaxQty == 2            \* largest quantity a client sends
MaxPrice == 2          \* prices (catalog and client-supplied) range over 1..MaxPrice
MaxCatalogOps == 1     \* catalog writes (PUT / DELETE) that interleave with the orders
MaxFailures == 1       \* store calls that fail in one run
PoolSize == 2          \* connections of the pool

Reqs == 1..NumReq
Conns == 1..PoolSize
ProductIds == 1..(NumProducts + 1)

\* ------------------------------------------------------------ the inputs
EmptyStr == << >>
Blank == << " " >>
CustomerStrings == { EmptyStr, Blank, << " ", "c" >> }

\* A well-formed line item (image_url is optional and only copied: left out).
ValidItems ==
  [ product_id : 1..NumProducts, quantity : 1..MaxQty, name : { << "w" >> },
    price_at_order : 1..MaxPrice ]

BaseItem == [ product_id |-> 1, quantity |-> 1, name |-> << "w" >>, price_at_order |-> 1 ]

\* The line items that make an order fail: one field of BaseItem missing, quantity <= 0,
\* or a product_id that is in no row of products.
DefectItems ==
  { [ BaseItem EXCEPT !.product_id = 0 ],
    [ BaseItem EXCEPT !.product_id = NumProducts + 1 ],
    [ BaseItem EXCEPT !.quantity = 0 ],
    [ BaseItem EXCEPT !.quantity = -1 ],
    [ BaseItem EXCEPT !.name = EmptyStr ],
    [ BaseItem EXCEPT !.price_at_order = 0 ] }

Items == ValidItems \cup DefectItems

\* The handler reads items.length and the customer fields on arrival and line item k
\* only in the k-th turn of its loop, so a request body is drawn in that order: its
\* header when it arrives, item k when the loop first reads it.  `items` is the prefix
\* of the body's item list read so far, `length` is items.length.
Headers ==
  [ length : 0..MaxItems, customerIdentifier : CustomerStrings, customerName : CustomerStrings ]

NoBody ==
  [ length |-> 0, customerIdentifier |-> EmptyStr, customerName |-> EmptyStr, items |-> << >> ]

Body(hdr) ==
  [ length |-> hdr.length, customerIdentifier |-> hdr.customerIdentifier,
    customerName |-> hdr.customerName, items |-> << >> ]

\* --------------------------------------------------------- pure helpers
IsSpace(ch) == ch = " "

RECURSIVE TrimStart(_)
TrimStart(s) ==
  IF s = << >> THEN << >>
  ELSE IF IsSpace(Head(s)) THEN TrimStart(Tail(s)) ELSE s

RECURSIVE TrimEnd(_)
TrimEnd(s) ==
  IF s = << >> THEN << >>
  ELSE IF IsSpace(s[Len(s)]) THEN TrimEnd(SubSeq(s, 1, Len(s) - 1)) ELSE s

\* String.prototype.trim
Trim(s) == TrimEnd(TrimStart(s))

\* index.js:169  !items || items.length === 0
ItemsMissing(b) == b.length = 0

\* index.js:173 / 176  !x || x.trim() === ''
BlankField(x) == x = EmptyStr \/ Trim(x) = EmptyStr

\* index.js:169-178: the three header checks, in order; 0 when all pass.
HeaderFailure(b) ==
  IF ItemsMissing(b) THEN 1
  ELSE IF BlankField(b.customerIdentifier) THEN 2
  ELSE IF BlankField(b.customerName) THEN 3
  ELSE 0

\* index.js:190
ItemInvalid(item) ==
  \/ item.product_id = 0
  \/ item.quantity = 0
  \/ item.quantity <= 0
  \/ item.name = EmptyStr
  \/ item.price_at_order = 0

\* The line total without the quantity factor.
ItemPriceNoQuantity(actualProductPrice, item) == actualProductPrice

\* index.js:206
ItemPriceCalculated(actualProductPrice, item) == actualProductPrice * item.quantity

\* The reconciled row keeping the price the client sent.
ReconciledItemClientPrice(item, actualProductPrice) ==
  [ product_id |-> item.product_id,
    quantity |-> item.quantity,
    price_at_order |-> item.price_at_order,
    product_name |-> item.name ]

\* index.js:209-215: the reconciled row kept for the insert
ReconciledItem(item, actualProductPrice) ==
  [ product_id |-> item.product_id,
    quantity |-> item.quantity,
    price_at_order |-> actualProductPrice,
    product_name |-> item.name ]

Op(name, arg) == [ op |-> name, arg |-> arg ]


\* ------------------------------------------------------------- the state
VARIABLES
  h,            \* h[r]: the create-order handler of request r (locals and position)
  products,     \* table products: id -> price, 0 when there is no such row
  orders,       \* table orders, the committed rows in insertion order
  order_items,  \* table order_items, the committed rows in insertion order
  nextOrderId,  \* AUTO_INCREMENT of orders.id
  conn,         \* conn[c]: the session of pool connection c (its open transaction)
  free,         \* the pool's free connections, first in first out
  catalogOps,   \* catalog writes done so far
  failures,     \* store calls that have failed so far
  reader        \* the GET /api/orders handler

vars == << h, products, orders, order_items, nextOrderId, conn, free, catalogOps, failures,
          reader >>

CleanSession == [ inTx |-> FALSE, orders |-> << >>, items |-> << >> ]

InitHandler ==
  [ pc |-> "start", body |-> NoBody, connection |-> 0, total_price |-> 0,
    orderItemsToInsert |-> << >>, i |-> 0, j |-> 0, order_id |-> 0,
    res |-> 0, err |-> "none", uncaught |-> FALSE, log |-> << >> ]

InitReader == [ pc |-> "idle", orders |-> << >>, k |-> 0 ]

Init ==
  /\ h = [ r \in Reqs |-> InitHandler ]
  /\ products = [ p \in ProductIds |-> IF p <= NumProducts THEN 1 + (p % MaxPrice) ELSE 0 ]
  /\ orders = << >>
  /\ order_items = << >>
  /\ nextOrderId = 1
  /\ conn = [ c \in Conns |-> CleanSession ]
  /\ free = [ c \in Conns |-> c ]
  /\ catalogOps = 0
  /\ failures = 0
  /\ reader = InitReader

\* ------------------------------------------------------------- the store
\* SELECT price FROM products WHERE id = ?  (index.js:196): zero or one row.
SelectPrice(pid) == IF pid \in ProductIds /\ products[pid] # 0 THEN << products[pid] >> ELSE << >>

\* SELECT ... FROM order_items WHERE order_id = ?  (index.js:268): committed rows only.
SelectItems(oid) == SelectSeq(order_items, LAMBDA row : row.order_id = oid)

\* A handler that never opens the transaction.
SessionBeginNoTx(sess) == sess

\* beginTransaction on session c (index.js:183).
SessionBegin(sess) == [ sess EXCEPT !.inTx = TRUE ]

\* An INSERT on session c: buffered by the open transaction, autocommitted without one.
InsertOrderRow(c, row) ==
  IF conn[c].inTx
  THEN /\ conn' = [ conn EXCEPT ![c].orders = Append(@, row) ]
       /\ orders' = orders
  ELSE /\ orders' = Append(orders, row)
       /\ conn' = conn

InsertItemRow(c, row) ==
  IF conn[c].inTx
  THEN /\ conn' = [ conn EXCEPT ![c].items = Append(@, row) ]
       /\ order_items' = order_items
  ELSE /\ order_items' = Append(order_items, row)
       /\ conn' = conn

\* --------------------------------------- the handler's synchronous steps
Logged(s, name, arg) == [ s EXCEPT !.log = Append(@, Op(name, arg)) ]

\* A release that sits after the catch block instead of in finally: skipped when
\* the catch block itself throws.
FinallyLeak(s) ==
  IF s.connection # 0 /\ ~s.uncaught
  THEN Logged([ s EXCEPT !.pc = "done" ], "release", s.connection)
  ELSE [ s EXCEPT !.pc = "done" ]

\* index.js:251-255: finally.
Finally(s) ==
  IF s.connection # 0
  THEN Logged([ s EXCEPT !.pc = "done" ], "release", s.connection)
  ELSE [ s EXCEPT !.pc = "done" ]

Respond(s, code) == Logged([ s EXCEPT !.res = code ], "respond", code)


\* A catch block that rolls back store errors only.
CatchNoRollback(s, kind) ==
  LET t == [ s EXCEPT !.err = kind, !.total_price = 0, !.orderItemsToInsert = << >>,
                      !.i = 0, !.j = 0, !.order_id = 0 ]
  IN IF t.connection # 0 /\ kind = "store"
     THEN Logged([ t EXCEPT !.pc = "await_rollback" ], "rollback", t.connection)
     ELSE Finally(Respond(t, 500))

\* index.js:245-250, first half: the catch block up to `await connection.rollback()`;
\* without a connection it answers 500 at once (and finally has nothing to release).
\* The locals of the try block are out of scope here.
Catch(s, kind) ==
  LET t == [ s EXCEPT !.err = kind, !.total_price = 0, !.orderItemsToInsert = << >>,
                      !.i = 0, !.j = 0, !.order_id = 0 ]
  IN IF t.connection # 0
     THEN Logged([ t EXCEPT !.pc = "await_rollback" ], "rollback", t.connection)
     ELSE Logged([ t EXCEPT !.pc = "done", !.res = 500 ], "respond", 500)

\* index.js:218-223: all items reconciled, issue the header insert.
IssueInsertOrder(s) == Logged([ s EXCEPT !.pc = "await_insertOrder" ], "insertOrder", 0)

\* index.js:188-196: take the next line item, validate it, issue its price lookup.
\* `item` is items[i + 1], read here for the first time.
NextItem(s, item) ==
  IF s.i < s.body.length
  THEN LET t == [ s EXCEPT !.body.items = Append(@, item), !.i = s.i + 1 ]
       IN IF ItemInvalid(item)
          THEN Catch(t, "invalid_item")
          ELSE Logged([ t EXCEPT !.pc = "await_lookup" ], "lookup", t.i)
  ELSE IssueInsertOrder(s)

\* index.js:228-235: issue the insert of the next reconciled row, or the commit.
NextInsert(s) ==
  IF s.j < Len(s.orderItemsToInsert)
  THEN Logged([ s EXCEPT !.pc = "await_insertItem", !.j = s.j + 1 ], "insertItem", s.j + 1)
  ELSE Logged([ s EXCEPT !.pc = "await_commit" ], "commit", s.connection)

\* A loop that skips a line item whose product is not found.
AfterLookupSkip(s, productRows, next) ==
  LET item == s.body.items[s.i]
  IN IF Len(productRows) = 0
     THEN NextItem(Logged(s, "rows", 0), next)
     ELSE LET actualProductPrice == productRows[1]
          IN NextItem(Logged(
               [ s EXCEPT
                   !.total_price = @ + ItemPriceCalculated(actualProductPrice, item),
                   !.orderItemsToInsert = Append(@, ReconciledItem(item, actualProductPrice)) ],
               "rows", actualProductPrice), next)

\* index.js:197-215: what the loop does with the rows of a price lookup: no row throws
\* (the whole order is aborted), one row is reconciled and the loop goes on.
AfterLookup(s, productRows, next) ==
  LET item == s.body.items[s.i]
  IN IF Len(productRows) = 0
     THEN Catch(Logged(s, "rows", 0), "not_found")
     ELSE LET actualProductPrice == productRows[1]
          IN NextItem(Logged(
               [ s EXCEPT
                   !.total_price = @ + ItemPriceCalculated(actualProductPrice, item),
                   !.orderItemsToInsert = Append(@, ReconciledItem(item, actualProductPrice)) ],
               "rows", actualProductPrice), next)

\* index.js:220-223: the header row
OrderRow(s, id) ==
  [ id |-> id, customer_identifier |-> s.body.customerIdentifier,
    customer_name |-> s.body.customerName, total_price |-> s.total_price,
    status |-> "completed" ]

\* The reconciled rows taken from the end of the list.
ItemRowReversed(s) ==
  LET item == s.orderItemsToInsert[Len(s.orderItemsToInsert) + 1 - s.j]
  IN [ order_id |-> s.order_id, product_id |-> item.product_id, quantity |-> item.quantity,
       price_at_order |-> item.price_at_order, product_name |-> item.product_name ]

\* index.js:229-232: the row of reconciled item j
ItemRow(s) ==
  LET item == s.orderItemsToInsert[s.j]
  IN [ order_id |-> s.order_id, product_id |-> item.product_id, quantity |-> item.quantity,
       price_at_order |-> item.price_at_order, product_name |-> item.product_name ]

CountOp(log, name) == Cardinality({ k \in 1..Len(log) : log[k].op = name })

\* connection.release() (index.js:253) puts the connection at the end of the pool's
\* free queue; the pool does not touch the session.
PoolAfter(s, t) ==
  IF CountOp(t.log, "release") > CountOp(s.log, "release")
  THEN Append(free, s.connection)
  ELSE free

\* Request r's handler moves from h[r] to t.
Step(r, t) ==
  /\ h' = [ h EXCEPT ![r] = t ]
  /\ free' = PoolAfter(h[r], t)

\* ------------------------------------------------- create-order: actions
\* index.js:165-182: the request arrives; header validation; pool.getConnection() issued.
Receive(r) ==
  /\ h[r].pc = "start"
  /\ \E hdr \in Headers :
       LET b == Body(hdr)
           s == [ h[r] EXCEPT !.body = b ]
       IN h' = [ h EXCEPT ![r] =
                   IF HeaderFailure(b) # 0
                   THEN Respond([ s EXCEPT !.pc = "done", !.err = "invalid_header" ], 400)
                   ELSE Logged([ s EXCEPT !.pc = "await_getConnection" ], "getConnection", 0) ]
  /\ UNCHANGED << products, orders, order_items, nextOrderId, conn, free, catalogOps, failures,
                  reader >>

\* index.js:182-183: the pool hands out its first free connection; beginTransaction issued.
GetConnectionOk(r) ==
  /\ h[r].pc = "await_getConnection"
  /\ free # << >>
  /\ h' = [ h EXCEPT ![r] =
              Logged(Logged([ @ EXCEPT !.pc = "await_begin", !.connection = Head(free) ],
                            "acquired", Head(free)),
                     "begin", Head(free)) ]
  /\ free' = Tail(free)
  /\ UNCHANGED << products, orders, order_items, nextOrderId, conn, catalogOps, failures,
                  reader >>

\* index.js:182 rejects: caught with `connection` still undefined.
GetConnectionFail(r) ==
  /\ h[r].pc = "await_getConnection"
  /\ failures < MaxFailures
  /\ failures' = failures + 1
  /\ Step(r, Finally(Catch(h[r], "store")))
  /\ UNCHANGED << products, orders, order_items, nextOrderId, conn, catalogOps, reader >>

\* index.js:183-196: the transaction is open; the loop starts.
BeginOk(r) ==
  /\ h[r].pc = "await_begin"
  /\ conn' = [ conn EXCEPT ![h[r].connection] = SessionBegin(@) ]
  /\ \E item \in Items : Step(r, NextItem(h[r], item))
  /\ UNCHANGED << products, orders, order_items, nextOrderId, catalogOps, failures, reader >>

BeginFail(r) ==
  /\ h[r].pc = "await_begin"
  /\ failures < MaxFailures
  /\ failures' = failures + 1
  /\ Step(r, Catch(h[r], "store"))
  /\ UNCHANGED << products, orders, order_items, nextOrderId, conn, catalogOps, reader >>

\* index.js:196-216: the lookup of item i returns its rows.
LookupOk(r) ==
  /\ h[r].pc = "await_lookup"
  /\ \E next \in Items :
       Step(r, AfterLookup(h[r], SelectPrice(h[r].body.items[h[r].i].product_id), next))
  /\ UNCHANGED << products, orders, order_items, nextOrderId, conn, catalogOps, failures,
                  reader >>

LookupFail(r) ==
  /\ h[r].pc = "await_lookup"
  /\ failures < MaxFailures
  /\ failures' = failures + 1
  /\ Step(r, Catch(h[r], "store"))
  /\ UNCHANGED << products, orders, order_items, nextOrderId, conn, catalogOps, reader >>

\* index.js:220-229: the header row is inserted and its id comes back; the first item
\* insert is issued.
InsertOrderOk(r) ==
  /\ h[r].pc = "await_insertOrder"
  /\ InsertOrderRow(h[r].connection, OrderRow(h[r], nextOrderId))
  /\ nextOrderId' = nextOrderId + 1
  /\ Step(r, NextInsert(Logged([ h[r] EXCEPT !.order_id = nextOrderId ],
                                "insertId", nextOrderId)))
  /\ UNCHANGED << products, order_items, catalogOps, failures, reader >>

InsertOrderFail(r) ==
  /\ h[r].pc = "await_insertOrder"
  /\ failures < MaxFailures
  /\ failures' = failures + 1
  /\ Step(r, Catch(h[r], "store"))
  /\ UNCHANGED << products, orders, order_items, nextOrderId, conn, catalogOps, reader >>

\* index.js:228-235: item row j is inserted; the next insert, or the commit, is issued.
InsertItemOk(r) ==
  /\ h[r].pc = "await_insertItem"
  /\ InsertItemRow(h[r].connection, ItemRow(h[r]))
  /\ Step(r, NextInsert(h[r]))
  /\ UNCHANGED << products, orders, nextOrderId, catalogOps, failures, reader >>

InsertItemFail(r) ==
  /\ h[r].pc = "await_insertItem"
  /\ failures < MaxFailures
  /\ failures' = failures + 1
  /\ Step(r, Catch(h[r], "store"))
  /\ UNCHANGED << products, orders, order_items, nextOrderId, conn, catalogOps, reader >>

\* index.js:235-243, 251-255: the commit publishes the transaction's rows; 201; release.
CommitOk(r) ==
  /\ h[r].pc = "await_commit"
  /\ LET c == h[r].connection
     IN /\ orders' = orders \o conn[c].orders
        /\ order_items' = order_items \o conn[c].items
        /\ conn' = [ conn EXCEPT ![c] = CleanSession ]
  /\ Step(r, Finally(Respond(Logged(h[r], "committed", h[r].connection), 201)))
  /\ UNCHANGED << products, nextOrderId, catalogOps, failures, reader >>

CommitFail(r) ==
  /\ h[r].pc = "await_commit"
  /\ failures < MaxFailures
  /\ failures' = failures + 1
  /\ Step(r, Catch(h[r], "store"))
  /\ UNCHANGED << products, orders, order_items, nextOrderId, conn, catalogOps, reader >>

\* index.js:247-255: the rollback discards the transaction's rows; 500; release.
RollbackOk(r) ==
  /\ h[r].pc = "await_rollback"
  /\ conn' = [ conn EXCEPT ![h[r].connection] = CleanSession ]
  /\ Step(r, Finally(Respond(h[r], 500)))
  /\ UNCHANGED << products, orders, order_items, nextOrderId, catalogOps, failures, reader >>

\* index.js:247 rejects inside the catch block: nothing catches it, so lines 249-250 are
\* skipped, finally releases the connection and the handler's promise rejects.  The
\* session is gone with the failed rollback and the server drops its open transaction.
RollbackFail(r) ==
  /\ h[r].pc = "await_rollback"
  /\ failures < MaxFailures
  /\ failures' = failures + 1
  /\ conn' = [ conn EXCEPT ![h[r].connection] = CleanSession ]
  /\ Step(r, Finally([ h[r] EXCEPT !.uncaught = TRUE ]))
  /\ UNCHANGED << products, orders, order_items, nextOrderId, catalogOps, reader >>

\* ------------------------------------------------------ catalog writers
\* index.js:108-141: UPDATE products SET price = ? WHERE id = ? (autocommit, price > 0).
UpdateProduct(p, price) ==
  /\ catalogOps < MaxCatalogOps
  /\ products[p] # 0
  /\ products[p] # price
  /\ products' = [ products EXCEPT ![p] = price ]
  /\ catalogOps' = catalogOps + 1
  /\ UNCHANGED << h, orders, order_items, nextOrderId, conn, free, reader, failures >>

\* index.js:145-159: DELETE FROM products WHERE id = ? (autocommit).
DeleteProduct(p) ==
  /\ catalogOps < MaxCatalogOps
  /\ products[p] # 0
  /\ products' = [ products EXCEPT ![p] = 0 ]
  /\ catalogOps' = catalogOps + 1
  /\ UNCHANGED << h, orders, order_items, nextOrderId, conn, free, reader, failures >>

\* ------------------------------------------------------------ the reader
\* index.js:260-263: GET /api/orders reads the committed order rows.
ReadOrders ==
  /\ reader.pc = "idle"
  /\ reader' = [ pc |-> IF Len(orders) = 0 THEN "idle" ELSE "items",
                 orders |-> [ n \in 1..Len(orders) |->
                               [ id |-> orders[n].id, total_price |-> orders[n].total_price,
                                 items |-> << >> ] ],
                 k |-> 0 ]
  /\ UNCHANGED << h, products, orders, order_items, nextOrderId, conn, free, catalogOps, failures >>

\* index.js:266-274: one more query fetches the items of the next order read.
ReadItems ==
  /\ reader.pc = "items"
  /\ LET k == reader.k + 1
     IN reader' = [ reader EXCEPT
                      !.orders[k].items = SelectItems(reader.orders[k].id),
                      !.k = k,
                      !.pc = IF k = Len(reader.orders) THEN "sent" ELSE "items" ]
  /\ UNCHANGED << h, products, orders, order_items, nextOrderId, conn, free, catalogOps, failures >>

\* index.js:275: res.json(orders); the handler is over.
ReadDone ==
  /\ reader.pc = "sent"
  /\ reader' = InitReader
  /\ UNCHANGED << h, products, orders, order_items, nextOrderId, conn, free, catalogOps,
                  failures >>

\* The steps of request r's handler when the store call it awaits succeeds.
Handle(r) ==
  \/ Receive(r)
  \/ GetConnectionOk(r)
  \/ BeginOk(r)
  \/ LookupOk(r)
  \/ InsertOrderOk(r)
  \/ InsertItemOk(r)
  \/ CommitOk(r)
  \/ RollbackOk(r)

\* The steps of request r's handler when the store call it awaits fails.
Fault(r) ==
  \/ GetConnectionFail(r)
  \/ BeginFail(r)
  \/ LookupFail(r)
  \/ InsertOrderFail(r)
  \/ InsertItemFail(r)
  \/ CommitFail(r)
  \/ RollbackFail(r)

\* Concurrent create-order requests, store failures and a reader.
Next ==
  \/ \E r \in Reqs : Handle(r)
  \/ \E r \in Reqs : Fault(r)
  \/ ReadOrders
  \/ ReadItems
  \/ ReadDone

Spec == Init /\ [][Next]_vars

\* Concurrent create-order requests and catalog writers on a store that does not fail.
NextCatalog ==
  \/ \E r \in Reqs : Handle(r)
  \/ \E p \in ProductIds : \E price \in 1..MaxPrice : UpdateProduct(p, price)
  \/ \E p \in ProductIds : DeleteProduct(p)

SpecCatalog == Init /\ [][NextCatalog]_vars


\* ============================================================ properties
\* What the log of request r says, and the rows of r a reader can see.
HasOp(r, name) == \E k \in 1..Len(h[r].log) : h[r].log[k].op = name

\* Position of the first `name` in r's log, 0 when there is none.
PosOp(r, name) ==
  IF HasOp(r, name)
  THEN CHOOSE k \in 1..Len(h[r].log) :
         /\ h[r].log[k].op = name
         /\ \A m \in 1..(k - 1) : h[r].log[m].op # name
  ELSE 0

ArgOp(r, name) == IF HasOp(r, name) THEN h[r].log[PosOp(r, name)].arg ELSE 0

\* The order id the store gave to r's header row (0: no header row was inserted).
InsertIdOf(r) == ArgOp(r, "insertId")

VisibleOrders(r) == SelectSeq(orders, LAMBDA row : InsertIdOf(r) # 0 /\ row.id = InsertIdOf(r))

VisibleItems(r) ==
  SelectSeq(order_items, LAMBDA row : InsertIdOf(r) # 0 /\ row.order_id = InsertIdOf(r))

\* The prices the store returned to r's lookups, in lookup order (0: no row).
RowsLog(r) == SelectSeq(h[r].log, LAMBDA e : e.op = "rows")

PricesRead(r) == [ k \in 1..Len(RowsLog(r)) |-> RowsLog(r)[k].arg ]

RECURSIVE SumTo(_, _)
SumTo(f, n) == IF n = 0 THEN 0 ELSE f[n] + SumTo(f, n - 1)

\* sum of quantity * price over a sequence of rows / of (item, price) pairs
SumRows(rows) == SumTo([ k \in 1..Len(rows) |-> rows[k].quantity * rows[k].price_at_order ],
                       Len(rows))

SumAuthoritative(r) ==
  SumTo([ k \in 1..Len(h[r].body.items) |-> h[r].body.items[k].quantity * PricesRead(r)[k] ],
        Len(h[r].body.items))

Succeeded(r) == h[r].res = 201

\* C1: at every moment the committed tables hold, for each request, either its one
\* order row with all N of its item rows or no row of it; no item row is without its
\* order row; and GET /api/orders, which reads the orders and then each order's items
\* in separate queries, never assembles an order with fewer than its N items.
C1_AtomicVisibility ==
  /\ \A r \in Reqs :
       \/ Len(VisibleOrders(r)) = 0 /\ Len(VisibleItems(r)) = 0
       \/ Len(VisibleOrders(r)) = 1 /\ Len(VisibleItems(r)) = h[r].body.length
  /\ \A n \in 1..Len(order_items) :
       \E m \in 1..Len(orders) : orders[m].id = order_items[n].order_id
  /\ \A m \in 1..Len(orders) : \E r \in Reqs : InsertIdOf(r) = orders[m].id
  /\ \A n \in 1..reader.k :
       \E r \in Reqs : /\ InsertIdOf(r) = reader.orders[n].id
                       /\ Len(reader.orders[n].items) = h[r].body.length

\* One order of two items is committed and has been read, item by item, while another
\* request has written its header row but not yet all of its item rows.
C1_Witness ==
  \E r1, r2 \in Reqs :
    /\ r1 # r2
    /\ Succeeded(r1) /\ h[r1].body.length = 2
    /\ reader.k >= 1 /\ Len(reader.orders[1].items) = 2
    /\ h[r2].pc = "await_insertItem"
    /\ Len(conn[h[r2].connection].orders) = 1
    /\ Len(conn[h[r2].connection].items) < h[r2].body.length

\* C2: a request answered 201 has exactly one order row and exactly N item rows with
\* its order id, and the row's total_price, which is the total_price of the response,
\* is the sum of quantity * price read from the catalog over its N items, which is
\* the sum of quantity * price_at_order over its item rows.
C2_SuccessfulOrder ==
  \A r \in Reqs :
    Succeeded(r) =>
      /\ Len(VisibleOrders(r)) = 1
      /\ Len(VisibleItems(r)) = h[r].body.length
      /\ Len(h[r].body.items) = h[r].body.length
      /\ h[r].order_id = InsertIdOf(r)
      /\ VisibleOrders(r)[1].total_price = h[r].total_price
      /\ h[r].total_price = SumAuthoritative(r)
      /\ h[r].total_price = SumRows(VisibleItems(r))

\* A committed order of two items with different quantities whose two lookups read
\* different prices (the catalog changed in between).
C2_Witness ==
  \E r \in Reqs :
    /\ Succeeded(r) /\ h[r].body.length = 2
    /\ h[r].body.items[1].quantity # h[r].body.items[2].quantity
    /\ PricesRead(r)[1] # PricesRead(r)[2]

\* The body without the prices the client sent.
WithoutClientPrices(b) ==
  [ b EXCEPT !.items = [ k \in 1..Len(b.items) |-> [ b.items[k] EXCEPT !.price_at_order = 0 ] ] ]

RowPrices(rows) == [ k \in 1..Len(rows) |-> rows[k].price_at_order ]

\* C3: the price_at_order of every committed item row is the price the store returned
\* to that item's lookup in the order's own transaction; and two committed orders whose
\* bodies differ at most in the client-supplied price_at_order values, and whose
\* lookups read the same catalog prices, have the same item prices and the same total.
C3_PriceIntegrity ==
  /\ \A r \in Reqs :
       \A k \in 1..Len(VisibleItems(r)) : VisibleItems(r)[k].price_at_order = PricesRead(r)[k]
  /\ \A r1, r2 \in Reqs :
       ( /\ Succeeded(r1) /\ Succeeded(r2)
         /\ WithoutClientPrices(h[r1].body) = WithoutClientPrices(h[r2].body)
         /\ PricesRead(r1) = PricesRead(r2) )
       => /\ RowPrices(VisibleItems(r1)) = RowPrices(VisibleItems(r2))
          /\ VisibleOrders(r1)[1].total_price = VisibleOrders(r2)[1].total_price

\* Two committed orders that differ in a client-supplied price and in nothing else,
\* one of them sent with a price that is not the catalog's.
C3_Witness ==
  \E r1, r2 \in Reqs :
    /\ Succeeded(r1) /\ Succeeded(r2)
    /\ h[r1].body # h[r2].body
    /\ WithoutClientPrices(h[r1].body) = WithoutClientPrices(h[r2].body)
    /\ PricesRead(r1) = PricesRead(r2)
    /\ h[r1].body.items[1].price_at_order # VisibleItems(r1)[1].price_at_order

SumLengths(S) ==
  SumTo([ r \in Reqs |-> IF r \in S THEN h[r].body.length ELSE 0 ], NumReq)

\* C4: a request that was answered with a failure, or one of whose lookups found no
\* product, has no committed order row and no committed item row; the committed tables
\* hold the rows of the requests answered 201 and nothing else.
C4_NoRowsOnFailure ==
  /\ \A r \in Reqs :
       ( \/ h[r].res \in { 400, 500 }
         \/ \E k \in 1..Len(PricesRead(r)) : PricesRead(r)[k] = 0 )
       => Len(VisibleOrders(r)) = 0 /\ Len(VisibleItems(r)) = 0
  /\ Len(orders) = Cardinality({ r \in Reqs : Succeeded(r) })
  /\ Len(order_items) = SumLengths({ r \in Reqs : Succeeded(r) })

\* One request failed on its second line item, whose product does not exist, and
\* another failed at commit after it had written its header and item rows.
C4_Witness ==
  \E r1, r2 \in Reqs :
    /\ h[r1].pc = "done" /\ h[r1].res = 500 /\ h[r1].err = "not_found"
    /\ Len(h[r1].body.items) = 2
    /\ h[r2].pc = "done" /\ h[r2].res = 500 /\ HasOp(r2, "commit")

\* C5: once a request whose beginTransaction was issued and whose commit did not
\* succeed has released its connection, has answered or is over, it has issued a
\* rollback on the connection of its beginTransaction, before the release and before
\* the answer.
C5_RollbackBeforeRelease ==
  \A r \in Reqs :
    ( /\ HasOp(r, "begin")
      /\ ~HasOp(r, "committed")
      /\ (HasOp(r, "release") \/ HasOp(r, "respond") \/ h[r].pc = "done") )
    => /\ HasOp(r, "rollback")
       /\ ArgOp(r, "rollback") = ArgOp(r, "begin")
       /\ HasOp(r, "release") => PosOp(r, "rollback") < PosOp(r, "release")
       /\ HasOp(r, "respond") => PosOp(r, "rollback") < PosOp(r, "respond")

\* A request whose header row was inserted and which then failed, rolled back,
\* answered and released.
C5_Witness ==
  \E r \in Reqs :
    /\ HasOp(r, "insertId") /\ ~HasOp(r, "committed")
    /\ HasOp(r, "rollback") /\ HasOp(r, "respond") /\ HasOp(r, "release")

Holds(r) == CountOp(h[r].log, "acquired") - CountOp(h[r].log, "release")

\* C6: a request holds at most one connection, releases only the connection it
\* acquired and only once, and holds none when it is over, whichever way it ends; the
\* connections missing from the pool are exactly those held by requests, so the pool
\* is full once every request is over.
C6_ConnectionPairing ==
  /\ \A r \in Reqs :
       /\ Holds(r) \in { 0, 1 }
       /\ CountOp(h[r].log, "acquired") <= 1
       /\ HasOp(r, "release") => ArgOp(r, "release") = ArgOp(r, "acquired")
       /\ Holds(r) = 1 => h[r].connection = ArgOp(r, "acquired")
       /\ h[r].pc = "done" => Holds(r) = 0
  /\ \A m, n \in 1..Len(free) : m # n => free[m] # free[n]
  /\ Conns \ { free[n] : n \in 1..Len(free) } = { h[r].connection : r \in { q \in Reqs : Holds(q) = 1 } }
  /\ (\A r \in Reqs : h[r].pc = "done") => Len(free) = PoolSize

\* Every request is over: one committed, and one whose rollback failed has released
\* its connection all the same.
C6_Witness ==
  /\ \A r \in Reqs : h[r].pc = "done"
  /\ \E r \in Reqs : Succeeded(r)
  /\ \E r \in Reqs : h[r].uncaught /\ HasOp(r, "release")

\* C7 (as claimed): a request that fails validation, of its header or of a line item,
\* has acquired no connection and issued no store call.
C7_ValidationBeforeStore ==
  \A r \in Reqs :
    h[r].err \in { "invalid_header", "invalid_item" } =>
      /\ ~HasOp(r, "getConnection")
      /\ ~HasOp(r, "begin")
      /\ ~HasOp(r, "lookup")
      /\ h[r].connection = 0

\* C8 (as claimed): validation failures and unknown products are answered 400, only
\* store errors are answered 500, and 201 is sent only after the commit succeeded.
C8_FailureClassification ==
  \A r \in Reqs :
    h[r].res # 0 =>
      /\ h[r].err \in { "invalid_header", "invalid_item", "not_found" } => h[r].res = 400
      /\ h[r].res = 500 => h[r].err = "store"
      /\ h[r].res = 201 => HasOp(r, "committed")

\* C9 (as claimed): a request that is over has sent exactly one response, 201, 400 or
\* 500, and no failure has escaped its handler.
C9_OneResponse ==
  \A r \in Reqs :
    h[r].pc = "done" =>
      /\ CountOp(h[r].log, "respond") = 1
      /\ h[r].res \in { 201, 400, 500 }
      /\ ~h[r].uncaught

\* The store calls of a request that meets no failure, for a body of n items.
ExpectedCalls(n) ==
  [ k \in 1..n |-> Op("lookup", k) ] \o << Op("insertOrder", 0) >>
    \o [ k \in 1..n |-> Op("insertItem", k) ] \o << Op("commit", 0) >>

\* The lookups, inserts and commit r has issued, in order.
StoreCalls(r) ==
  LET calls == SelectSeq(h[r].log,
                         LAMBDA e : e.op \in { "lookup", "insertOrder", "insertItem", "commit" })
  IN [ k \in 1..Len(calls) |->
         IF calls[k].op = "commit" THEN Op("commit", 0) ELSE calls[k] ]

IsPrefix(s, t) == Len(s) <= Len(t) /\ \A k \in 1..Len(s) : s[k] = t[k]

\* The item rows r has written: committed, or still in its open transaction.
WrittenItems(r) ==
  IF Len(VisibleItems(r)) > 0 \/ h[r].connection = 0 \/ h[r].pc = "done"
  THEN VisibleItems(r)
  ELSE conn[h[r].connection].items

\* C10: the store calls of a request are a prefix of: the lookups of items 1..N in
\* submission order, the header insert, the inserts of items 1..N, the commit.  A
\* lookup is issued only when the lookup before it returned a row, the header insert
\* only when the last lookup did, the first item insert only when the header insert
\* returned the order id; the k-th item row written is the k-th submitted item
\* and carries that order id.
C10_StoreCallOrder ==
  \A r \in Reqs :
    /\ IsPrefix(StoreCalls(r), ExpectedCalls(h[r].body.length))
    /\ \A k \in 2..Len(h[r].log) :
         /\ h[r].log[k].op = "lookup" /\ h[r].log[k].arg > 1
              => h[r].log[k - 1].op = "rows" /\ h[r].log[k - 1].arg > 0
         /\ h[r].log[k].op = "insertOrder"
              => h[r].log[k - 1].op = "rows" /\ h[r].log[k - 1].arg > 0
         /\ h[r].log[k].op = "insertItem" /\ h[r].log[k].arg = 1
              => h[r].log[k - 1].op = "insertId"
    /\ \A k \in 1..Len(WrittenItems(r)) :
         /\ WrittenItems(r)[k].order_id = InsertIdOf(r)
         /\ WrittenItems(r)[k].product_id = h[r].body.items[k].product_id
         /\ WrittenItems(r)[k].quantity = h[r].body.items[k].quantity

\* A committed order of two items that differ in quantity, so that their order shows.
C10_Witness ==
  \E r \in Reqs :
    /\ HasOp(r, "committed") /\ h[r].body.length = 2
    /\ VisibleItems(r)[1].quantity = 1 /\ VisibleItems(r)[2].quantity = 2

====
